---- MODULE Spec2Model ----
(***************************************************************************)
(* Conversation service: sessions and their events, kept in two MongoDB    *)
(* collections (sessions, events) and served by ConversationsService.      *)
(* Every handler is a chain of awaited storage calls; each storage call is *)
(* one atomic step, and the steps of concurrent requests interleave.       *)
(***************************************************************************)
EXTENDS Integers, Sequences, FiniteSets, TLC

\* Bounds of the model.
MaxCalls == 3        \* requests issued in one behaviour
MaxClock == 2        \* the server clock takes the values 1..MaxClock
MaxFaults == 1       \* storage calls that fail in one behaviour
MaxStored == 2       \* events of one session stored before the requests start

\* Inputs the requests are drawn from. Session ids, languages and event ids
\* are opaque strings to the service, so a behaviour that names "s2" before
\* "s1" is a behaviour that names them in order with the two names swapped:
\* requests introduce the names of each kind in the order listed here.
SessionIdOrder == <<"s1", "s2">>
LanguageOrder == <<"en", "fr">>
EventIdOrder == <<"e1", "e2">>
SessionIds == {SessionIdOrder[k] : k \in 1..Len(SessionIdOrder)}
Languages == {LanguageOrder[k] : k \in 1..Len(LanguageOrder)}
EventIds == {EventIdOrder[k] : k \in 1..Len(EventIdOrder)}
PageLimits == {1, 2}
PageOffsets == {0}

\* enum SessionStatus
ACTIVE == "active"
COMPLETED == "completed"

\* enum EventType
EventType == {"message_sent", "message_received", "user_joined", "user_left"}

\* ISO date strings a client may send as CreateEventDto.timestamp; the first
\* two spell the same instant.
DateStrings == {"2025-12-16T10:00:00.000Z", "2025-12-16T10:00:00Z",
                "2025-12-16T10:01:00.000Z", "2025-12-16T10:02:00.000Z"}

\* new Date(dto.timestamp): the instant an ISO string denotes (minutes after
\* 2025-12-16T09:59Z).
ParseDate(s) ==
    CASE s = "2025-12-16T10:00:00.000Z" -> 1
      [] s = "2025-12-16T10:00:00Z" -> 1
      [] s = "2025-12-16T10:01:00.000Z" -> 2
      [] s = "2025-12-16T10:02:00.000Z" -> 3

\* A Date in a JSON response (Date.prototype.toJSON): the ISO string of the
\* instant, always with milliseconds.
FormatDate(t) ==
    CASE t = 1 -> "2025-12-16T10:00:00.000Z"
      [] t = 2 -> "2025-12-16T10:01:00.000Z"
      [] t = 3 -> "2025-12-16T10:02:00.000Z"

\* Bodies of POST /sessions/:sessionId/events (without the eventId).
EventBodies ==
    { [type |-> "message_sent", payload |-> "p1",
       timestamp |-> "2025-12-16T10:00:00Z"],
      [type |-> "message_received", payload |-> "p2",
       timestamp |-> "2025-12-16T10:01:00.000Z"] }

CreateSessionDtos == [sessionId : SessionIds, language : Languages]

CreateEventDtos ==
    { [eventId |-> e, type |-> b.type, payload |-> b.payload,
       timestamp |-> b.timestamp] : e \in EventIds, b \in EventBodies }

PaginationDtos == [limit : PageLimits, offset : PageOffsets]

\* The configured maximum of limit. The README gives 100; the model keeps a
\* few events per session and scales the maximum to them, so that a session
\* holds more events than the maximum.
LimitMax == 2

\* A PaginationDto that takes limit as the query gives it.
PaginationDtoUnclamped(query) ==
    [limit |-> query.limit, offset |-> query.offset]

\* PaginationDto, built by the ValidationPipe from the query string: limit
\* above the maximum is clamped to it, offset is a plain skip count.
PaginationDto(query) ==
    [limit |-> IF query.limit > LimitMax THEN LimitMax ELSE query.limit,
     offset |-> query.offset]

VARIABLES
    sessions,   \* the sessions collection: a set of Session documents
    events,     \* the events collection: a set of Event documents
    calls,      \* the requests: calls[i] is request i, its position and result
    now,        \* the last value the server clock was read at
    nextId      \* the next _id the storage engine assigns

vars == <<sessions, events, calls, now, nextId>>

Idle == [op |-> "none", pc |-> "idle", fault |-> FALSE]

\* The requests issued so far, and the number of the next one.
Started == {j \in 1..MaxCalls : calls[j].pc # "idle"}
NextCall == Cardinality(Started) + 1

\* The names the requests issued so far have used.
NamedSessionIds == {calls[j].sessionId : j \in Started}
NamedLanguages ==
    {calls[j].dto.language : j \in {k \in Started : calls[k].op = "createSession"}}
NamedEventIds ==
    {calls[j].dto.eventId : j \in {k \in Started : calls[k].op = "addEvent"}}

\* x is a name already used, or the first unused name of `order`.
InOrder(x, named, order) ==
    \A k \in 1..Len(order) :
        order[k] = x => \A m \in 1..(k - 1) : order[m] \in named

\* new Date(): the clock never runs backwards.
ReadClock(t) == t \in {now, now + 1} /\ t <= MaxClock

----------------------------------------------------------------------------
\* Responses.

Pending == [outcome |-> "pending"]

\* A handler returned `body`; the controller's @HttpCode gives the status.
Ok(code, body) == [outcome |-> "ok", code |-> code, body |-> body]

\* throw new NotFoundException(...)
NotFound == [outcome |-> "NotFoundException", code |-> 404]

\* throw new InternalServerErrorException(msg)
InternalServerError(msg) ==
    [outcome |-> "InternalServerErrorException", code |-> 500, message |-> msg]

\* A storage error that no handler caught leaves the service as it is.
StorageError == [outcome |-> "StorageError", code |-> 500]

Finish(i, res) == [calls EXCEPT ![i].pc = "done", ![i].res = res]

----------------------------------------------------------------------------
\* Storage: the sessions collection.

SessionsWith(sid) == {d \in sessions : d.sessionId = sid}

\* The sessions collection without its unique index: every insert is accepted.
SessionIdNotIndexed(coll, doc) == TRUE

\* The unique index on sessionId: may `doc` be inserted into `coll`?
SessionIdUnique(coll, doc) == \A d \in coll : d.sessionId # doc.sessionId

\* The document an upsert inserts: $setOnInsert, and createdAt/updatedAt of
\* the schema's timestamps option.
NewSession(id, dto, t) ==
    [_id |-> id, sessionId |-> dto.sessionId, language |-> dto.language,
     status |-> ACTIVE, startedAt |-> t, endedAt |-> <<>>,
     createdAt |-> t, updatedAt |-> t]

\* The same update with language under $set instead of $setOnInsert.
UpsertExistingSetsLanguage(d, dto, t) ==
    [d EXCEPT !.language = dto.language, !.updatedAt = t]

\* The same update with startedAt under $set instead of $setOnInsert.
UpsertExistingSetsStartedAt(d, dto, t) ==
    [d EXCEPT !.startedAt = t, !.updatedAt = t]

\* The same update with status under $set instead of $setOnInsert.
UpsertExistingSetsStatus(d, dto, t) ==
    [d EXCEPT !.status = ACTIVE, !.updatedAt = t]

\* The upsert's update of a document that already exists: $setOnInsert sets
\* nothing; the schema's timestamps option sets updatedAt.
UpsertExisting(d, dto, t) == [d EXCEPT !.updatedAt = t]

\* A duplicate-key error of the upsert's insert that the storage engine does
\* not retry: createSession's catch block turns it into a 500.
UpsertDuplicateKeyThrown(i) ==
    [calls EXCEPT ![i].pc = "done", ![i].lostRace = TRUE,
                  ![i].res = [outcome |-> "InternalServerErrorException",
                              code |-> 500,
                              message |-> "Failed to create session"]]

\* A duplicate-key error of the upsert's insert: the storage engine runs the
\* upsert again (and then matches the winning document).
UpsertDuplicateKey(i) ==
    [calls EXCEPT ![i].pc = "upsert", ![i].lostRace = TRUE]

\* completeSession as a read-check-write: a completed session is left alone.
CompleteUpdateFirstWins(d, t) ==
    IF d.status = COMPLETED
    THEN d
    ELSE [d EXCEPT !.status = COMPLETED, !.endedAt = <<t>>, !.updatedAt = t]

\* The same update without endedAt in its $set.
CompleteUpdateStatusOnly(d, t) ==
    [d EXCEPT !.status = COMPLETED, !.updatedAt = t]

\* completeSession's update: $set status and endedAt, and updatedAt.
CompleteUpdate(d, t) ==
    [d EXCEPT !.status = COMPLETED, !.endedAt = <<t>>, !.updatedAt = t]

----------------------------------------------------------------------------
\* Storage: the events collection.

EventsOf(sid) == {e \in events : e.sessionId = sid}

EventsWith(sid, eid) == {e \in events : e.sessionId = sid /\ e.eventId = eid}

\* The events collection with a plain (not unique) compound index.
EventKeyNotIndexed(coll, doc) == TRUE

\* A unique index on eventId alone.
EventIdUniqueAcrossSessions(coll, doc) ==
    \A e \in coll : e.eventId # doc.eventId

\* The compound unique index on (sessionId, eventId).
EventKeyUnique(coll, doc) ==
    \A e \in coll : ~(e.sessionId = doc.sessionId /\ e.eventId = doc.eventId)

\* eventModel.create as a replace-by-key: the new document takes the place of
\* the stored one.
EventsAfterCreateReplacing(coll, doc) ==
    {e \in coll : ~(e.sessionId = doc.sessionId /\ e.eventId = doc.eventId)}
        \cup {doc}

\* eventModel.create on a collection that keeps one event per session: the
\* insert drops the session's earlier events.
EventsAfterCreateCapped(coll, doc) ==
    IF EventKeyUnique(coll, doc)
    THEN {e \in coll : e.sessionId # doc.sessionId} \cup {doc}
    ELSE coll

\* The collection after eventModel.create(doc): the unique index rejects a
\* document whose key is stored already, and nothing is written.
EventsAfterCreate(coll, doc) ==
    IF EventKeyUnique(coll, doc) THEN coll \cup {doc} ELSE coll

\* catch (error) without the error.code === 11000 branch: the duplicate key
\* ends as every other storage error does.
OnDuplicateKeyRethrown(i) ==
    [calls EXCEPT ![i].pc = "done", ![i].duplicate = TRUE,
                  ![i].res = [outcome |-> "InternalServerErrorException",
                              code |-> 500, message |-> "Failed to add event"]]

\* catch (error): error.code === 11000, the duplicate key of the unique index;
\* addEvent goes on to read the stored event.
OnDuplicateKey(i) ==
    [calls EXCEPT ![i].pc = "find_existing", ![i].duplicate = TRUE]

\* The same document with the server's clock as timestamp.
NewEventServerTime(id, sid, dto, t) ==
    [_id |-> id, eventId |-> dto.eventId, sessionId |-> sid,
     type |-> dto.type, payload |-> dto.payload,
     timestamp |-> t,
     createdAt |-> t, updatedAt |-> t]

\* The document eventModel.create builds.
NewEvent(id, sid, dto, t) ==
    [_id |-> id, eventId |-> dto.eventId, sessionId |-> sid,
     type |-> dto.type, payload |-> dto.payload,
     timestamp |-> ParseDate(dto.timestamp),
     createdAt |-> t, updatedAt |-> t]

\* The same listing with sort({ timestamp: -1 }): latest first.
RECURSIVE SortedByTimestampDescending(_)
SortedByTimestampDescending(S) ==
    IF S = {}
    THEN {<<>>}
    ELSE UNION { { <<e>> \o q : q \in SortedByTimestampDescending(S \ {e}) } :
                 e \in {x \in S : \A y \in S : x.timestamp >= y.timestamp} }

\* The sequences that list the set S once each, by timestamp ascending
\* (documents of equal timestamp in any order): a document of the least
\* timestamp, then the rest in order.
RECURSIVE SortedByTimestamp(_)
SortedByTimestamp(S) ==
    IF S = {}
    THEN {<<>>}
    ELSE UNION { { <<e>> \o q : q \in SortedByTimestamp(S \ {e}) } :
                 e \in {x \in S : \A y \in S : x.timestamp <= y.timestamp} }

Min(a, b) == IF a < b THEN a ELSE b

\* .limit(limit) without .skip(offset)
SkipLimitFromStart(q, offset, limit) == SubSeq(q, 1, Min(Len(q), limit))

\* .skip(offset).limit(limit)
SkipLimit(q, offset, limit) == SubSeq(q, offset + 1, Min(Len(q), offset + limit))

\* The same metadata with hasMore = offset + limit <= total.
PaginationInclusive(total, limit, offset) ==
    [total |-> total, limit |-> limit, offset |-> offset,
     hasMore |-> (offset + limit <= total),
     nextOffset |-> IF offset + limit <= total THEN <<offset + limit>> ELSE <<>>]

\* The same metadata with hasMore = offset + limit < total - 1.
PaginationStopsEarly(total, limit, offset) ==
    [total |-> total, limit |-> limit, offset |-> offset,
     hasMore |-> (offset + limit < total - 1),
     nextOffset |-> IF offset + limit < total - 1
                    THEN <<offset + limit>> ELSE <<>>]

\* hasMore and nextOffset.
Pagination(total, limit, offset) ==
    [total |-> total, limit |-> limit, offset |-> offset,
     hasMore |-> (offset + limit < total),
     nextOffset |-> IF offset + limit < total THEN <<offset + limit>> ELSE <<>>]

----------------------------------------------------------------------------
Init ==
    /\ sessions = {}
    /\ events = {}
    /\ calls = [i \in 1..MaxCalls |-> Idle]
    /\ now = 1
    /\ nextId = 1

\* POST /sessions: the handler starts, reads the clock and sends the upsert.
createSession(dto) ==
    /\ NextCall <= MaxCalls
    /\ InOrder(dto.sessionId, NamedSessionIds, SessionIdOrder)
    /\ InOrder(dto.language, NamedLanguages, LanguageOrder)
    /\ \E t \in 1..MaxClock :
          /\ ReadClock(t)
          /\ now' = t
          /\ calls' = [calls EXCEPT ![NextCall] =
                 [op |-> "createSession", pc |-> "upsert",
                  sessionId |-> dto.sessionId, dto |-> dto, t |-> t, lostRace |-> FALSE, fault |-> FALSE, res |-> Pending]]
    /\ UNCHANGED <<sessions, events, nextId>>

\* findOneAndUpdate(upsert), first half: match { sessionId }.
createSessionUpsert(i) ==
    /\ calls[i].op = "createSession" /\ calls[i].pc = "upsert"
    /\ LET c == calls[i] IN
       IF SessionsWith(c.dto.sessionId) # {}
       THEN \E d \in SessionsWith(c.dto.sessionId) :
               LET nd == UpsertExisting(d, c.dto, c.t) IN
               /\ sessions' = (sessions \ {d}) \cup {nd}
               /\ calls' = Finish(i, Ok(201, nd))
       ELSE /\ calls' = [calls EXCEPT ![i].pc = "insert"]
            /\ UNCHANGED sessions
    /\ UNCHANGED <<events, now, nextId>>

\* findOneAndUpdate(upsert), second half: nothing matched, insert.
createSessionInsert(i) ==
    /\ calls[i].op = "createSession" /\ calls[i].pc = "insert"
    /\ LET c == calls[i]
           nd == NewSession(nextId, c.dto, c.t) IN
       IF SessionIdUnique(sessions, nd)
       THEN /\ sessions' = sessions \cup {nd}
            /\ nextId' = nextId + 1
            /\ calls' = Finish(i, Ok(201, nd))
       ELSE /\ calls' = UpsertDuplicateKey(i)
            /\ UNCHANGED <<sessions, nextId>>
    /\ UNCHANGED <<events, now>>

\* POST /sessions/:sessionId/complete: the handler starts and reads the clock.
completeSession(sid) ==
    /\ NextCall <= MaxCalls
    /\ InOrder(sid, NamedSessionIds, SessionIdOrder)
    /\ \E t \in 1..MaxClock :
          /\ ReadClock(t)
          /\ now' = t
          /\ calls' = [calls EXCEPT ![NextCall] =
                 [op |-> "completeSession", pc |-> "update", sessionId |-> sid,
                  t |-> t, fault |-> FALSE, res |-> Pending]]
    /\ UNCHANGED <<sessions, events, nextId>>

\* The same findOneAndUpdate with upsert: true: a sessionId without a session
\* gets one, completed.
completeSessionUpdateUpserting(i) ==
    /\ calls[i].op = "completeSession" /\ calls[i].pc = "update"
    /\ LET c == calls[i] IN
       IF SessionsWith(c.sessionId) # {}
       THEN \E d \in SessionsWith(c.sessionId) :
               LET nd == CompleteUpdate(d, c.t) IN
               /\ sessions' = (sessions \ {d}) \cup {nd}
               /\ nextId' = nextId
               /\ calls' = Finish(i, Ok(200, nd))
       ELSE LET nd == [_id |-> nextId, sessionId |-> c.sessionId,
                       language |-> "en", status |-> COMPLETED,
                       startedAt |-> c.t, endedAt |-> <<c.t>>,
                       createdAt |-> c.t, updatedAt |-> c.t] IN
            /\ sessions' = sessions \cup {nd}
            /\ nextId' = nextId + 1
            /\ calls' = Finish(i, Ok(200, nd))
    /\ UNCHANGED <<events, now>>

\* findOneAndUpdate({ sessionId }, { $set }, { new: true })
completeSessionUpdate(i) ==
    /\ calls[i].op = "completeSession" /\ calls[i].pc = "update"
    /\ LET c == calls[i] IN
       IF SessionsWith(c.sessionId) # {}
       THEN \E d \in SessionsWith(c.sessionId) :
               LET nd == CompleteUpdate(d, c.t) IN
               /\ sessions' = (sessions \ {d}) \cup {nd}
               /\ calls' = Finish(i, Ok(200, nd))
       ELSE /\ calls' = Finish(i, NotFound)
            /\ UNCHANGED sessions
    /\ UNCHANGED <<events, now, nextId>>

\* An addEvent request as the handler starts.
AddEventCall(sid, dto) ==
    [op |-> "addEvent", pc |-> "find_session", sessionId |-> sid, dto |-> dto,
     duplicate |-> FALSE, fault |-> FALSE, res |-> Pending]

\* addEvent without the session check: every request goes on to create.
addEventNoSessionCheck(sid, dto) ==
    /\ NextCall <= MaxCalls
    /\ InOrder(sid, NamedSessionIds, SessionIdOrder)
    /\ InOrder(dto.eventId, NamedEventIds, EventIdOrder)
    /\ calls' = [calls EXCEPT ![NextCall] =
           [AddEventCall(sid, dto) EXCEPT !.pc = "create"]]
    /\ UNCHANGED <<sessions, events, now, nextId>>

\* addEvent with the filter of its session check dropped, findOne({}): the
\* check passes when any session is stored.
addEventAnySession(sid, dto) ==
    /\ NextCall <= MaxCalls
    /\ InOrder(sid, NamedSessionIds, SessionIdOrder)
    /\ InOrder(dto.eventId, NamedEventIds, EventIdOrder)
    /\ calls' = [calls EXCEPT ![NextCall] =
           IF sessions = {}
           THEN [AddEventCall(sid, dto) EXCEPT !.pc = "done", !.res = NotFound]
           ELSE [AddEventCall(sid, dto) EXCEPT !.pc = "create"]]
    /\ UNCHANGED <<sessions, events, now, nextId>>

\* addEvent with a status filter in its session check,
\* findOne({ sessionId, status: ACTIVE }): a completed session is not found.
addEventActiveOnly(sid, dto) ==
    /\ NextCall <= MaxCalls
    /\ InOrder(sid, NamedSessionIds, SessionIdOrder)
    /\ InOrder(dto.eventId, NamedEventIds, EventIdOrder)
    /\ calls' = [calls EXCEPT ![NextCall] =
           IF {d \in SessionsWith(sid) : d.status = ACTIVE} = {}
           THEN [AddEventCall(sid, dto) EXCEPT !.pc = "done", !.res = NotFound]
           ELSE [AddEventCall(sid, dto) EXCEPT !.pc = "create"]]
    /\ UNCHANGED <<sessions, events, now, nextId>>

\* POST /sessions/:sessionId/events: the handler starts; up to its first
\* storage call it touches nothing shared, so the request is issued in the
\* step of that call, sessionModel.findOne({ sessionId }).
addEvent(sid, dto) ==
    /\ NextCall <= MaxCalls
    /\ InOrder(sid, NamedSessionIds, SessionIdOrder)
    /\ InOrder(dto.eventId, NamedEventIds, EventIdOrder)
    /\ calls' = [calls EXCEPT ![NextCall] =
           IF SessionsWith(sid) = {}
           THEN [AddEventCall(sid, dto) EXCEPT !.pc = "done", !.res = NotFound]
           ELSE [AddEventCall(sid, dto) EXCEPT !.pc = "create"]]
    /\ UNCHANGED <<sessions, events, now, nextId>>

\* The same step, also touching the session: updatedAt of the event's
\* session is set to the time of the insert.
addEventCreateTouchingSession(i) ==
    /\ calls[i].op = "addEvent" /\ calls[i].pc = "create"
    /\ \E t \in 1..MaxClock :
          /\ ReadClock(t)
          /\ now' = t
          /\ LET c == calls[i]
                 ne == NewEvent(nextId, c.sessionId, c.dto, t) IN
             /\ events' = EventsAfterCreate(events, ne)
             /\ sessions' = {IF d.sessionId = c.sessionId
                             THEN [d EXCEPT !.updatedAt = t] ELSE d :
                             d \in sessions}
             /\ IF EventKeyUnique(events, ne)
                THEN /\ nextId' = nextId + 1
                     /\ calls' = Finish(i, Ok(201, ne))
                ELSE /\ calls' = OnDuplicateKey(i)
                     /\ UNCHANGED nextId

\* eventModel.create({...}); a duplicate key (code 11000) is caught.
addEventCreate(i) ==
    /\ calls[i].op = "addEvent" /\ calls[i].pc = "create"
    /\ \E t \in 1..MaxClock :
          /\ ReadClock(t)
          /\ now' = t
          /\ LET c == calls[i]
                 ne == NewEvent(nextId, c.sessionId, c.dto, t) IN
             /\ events' = EventsAfterCreate(events, ne)
             /\ IF EventKeyUnique(events, ne)
                THEN /\ nextId' = nextId + 1
                     /\ calls' = Finish(i, Ok(201, ne))
                ELSE /\ calls' = OnDuplicateKey(i)
                     /\ UNCHANGED nextId
    /\ UNCHANGED sessions

\* The re-read with the type of the request in its filter,
\* findOne({ sessionId, eventId, type }).
addEventFindExistingByType(i) ==
    /\ calls[i].op = "addEvent" /\ calls[i].pc = "find_existing"
    /\ LET c == calls[i]
           found == {e \in EventsWith(c.sessionId, c.dto.eventId) :
                        e.type = c.dto.type} IN
       IF found = {}
       THEN calls' = Finish(i, InternalServerError(
                         "Duplicate key error but event not found"))
       ELSE \E e \in found : calls' = Finish(i, Ok(201, e))
    /\ UNCHANGED <<sessions, events, now, nextId>>

\* eventModel.findOne({ sessionId, eventId }) after the duplicate key.
addEventFindExisting(i) ==
    /\ calls[i].op = "addEvent" /\ calls[i].pc = "find_existing"
    /\ LET c == calls[i] IN
       IF EventsWith(c.sessionId, c.dto.eventId) = {}
       THEN calls' = Finish(i, InternalServerError(
                         "Duplicate key error but event not found"))
       ELSE \E e \in EventsWith(c.sessionId, c.dto.eventId) :
               calls' = Finish(i, Ok(201, e))
    /\ UNCHANGED <<sessions, events, now, nextId>>

\* A getSession request as the handler starts: the controller hands it the
\* PaginationDto of the request's query.
GetSessionCall(sid, query) ==
    [op |-> "getSession", pc |-> "find_session", sessionId |-> sid,
     query |-> query,
     limit |-> PaginationDto(query).limit,
     offset |-> PaginationDto(query).offset,
     session |-> <<>>, page |-> <<>>, fault |-> FALSE, res |-> Pending]

\* GET /sessions/:sessionId?limit&offset: the handler starts; the request is
\* issued in the step of its first storage call,
\* sessionModel.findOne({ sessionId }).
getSession(sid, query) ==
    /\ NextCall <= MaxCalls
    /\ InOrder(sid, NamedSessionIds, SessionIdOrder)
    /\ IF SessionsWith(sid) = {}
       THEN calls' = [calls EXCEPT ![NextCall] =
                [GetSessionCall(sid, query) EXCEPT
                    !.pc = "done", !.res = NotFound]]
       ELSE \E d \in SessionsWith(sid) :
               calls' = [calls EXCEPT ![NextCall] =
                   [GetSessionCall(sid, query) EXCEPT
                       !.pc = "find_events", !.session = <<d>>]]
    /\ UNCHANGED <<sessions, events, now, nextId>>

\* eventModel.find({ sessionId }).sort({ timestamp: 1 }).skip().limit()
getSessionFindEvents(i) ==
    /\ calls[i].op = "getSession" /\ calls[i].pc = "find_events"
    /\ \E q \in SortedByTimestamp(EventsOf(calls[i].sessionId)) :
          calls' = [calls EXCEPT
                       ![i].pc = "count",
                       ![i].page = SkipLimit(q, calls[i].offset, calls[i].limit)]
    /\ UNCHANGED <<sessions, events, now, nextId>>

\* The same step with the total taken from the page: offset plus the number
\* of events on it, no count of the collection.
getSessionCountFromPage(i) ==
    /\ calls[i].op = "getSession" /\ calls[i].pc = "count"
    /\ LET c == calls[i]
           total == c.offset + Len(c.page) IN
       calls' = Finish(i, Ok(200,
                    [session |-> c.session[1], events |-> c.page,
                     pagination |-> Pagination(total, c.limit, c.offset)]))
    /\ UNCHANGED <<sessions, events, now, nextId>>

\* The same step with countDocuments({}): the filter is dropped.
getSessionCountAll(i) ==
    /\ calls[i].op = "getSession" /\ calls[i].pc = "count"
    /\ LET c == calls[i]
           total == Cardinality(events) IN
       calls' = Finish(i, Ok(200,
                    [session |-> c.session[1], events |-> c.page,
                     pagination |-> Pagination(total, c.limit, c.offset)]))
    /\ UNCHANGED <<sessions, events, now, nextId>>

\* eventModel.countDocuments({ sessionId }), and the response.
getSessionCount(i) ==
    /\ calls[i].op = "getSession" /\ calls[i].pc = "count"
    /\ LET c == calls[i]
           total == Cardinality(EventsOf(c.sessionId)) IN
       calls' = Finish(i, Ok(200,
                    [session |-> c.session[1], events |-> c.page,
                     pagination |-> Pagination(total, c.limit, c.offset)]))
    /\ UNCHANGED <<sessions, events, now, nextId>>

\* What the handler of request c makes of a storage call that fails with an
\* error other than a duplicate key.
OnStorageFailure(c) ==
    CASE c.op = "createSession" ->
             InternalServerError("Failed to create session")
      [] c.op = "addEvent" /\ c.pc = "create" ->
             InternalServerError("Failed to add event")
      [] OTHER -> StorageError

\* A storage call of request i fails (connection lost, timeout, ...) and
\* writes nothing.
storageFailure(i) ==
    /\ calls[i].pc \notin {"idle", "done"}
    /\ Cardinality({j \in 1..MaxCalls : calls[j].fault}) < MaxFaults
    /\ calls' = [Finish(i, OnStorageFailure(calls[i])) EXCEPT ![i].fault = TRUE]
    /\ UNCHANGED <<sessions, events, now, nextId>>

\* The first storage call of a request, sessionModel.findOne, fails.
findSessionFailure(c) ==
    /\ NextCall <= MaxCalls
    /\ InOrder(c.sessionId, NamedSessionIds, SessionIdOrder)
    /\ c.op = "addEvent" => InOrder(c.dto.eventId, NamedEventIds, EventIdOrder)
    /\ Cardinality({j \in 1..MaxCalls : calls[j].fault}) < MaxFaults
    /\ calls' = [calls EXCEPT ![NextCall] =
           [c EXCEPT !.pc = "done", !.fault = TRUE, !.res = OnStorageFailure(c)]]
    /\ UNCHANGED <<sessions, events, now, nextId>>

Next ==
    \/ \E dto \in CreateSessionDtos : createSession(dto)
    \/ \E i \in 1..MaxCalls : createSessionUpsert(i)
    \/ \E i \in 1..MaxCalls : createSessionInsert(i)
    \/ \E sid \in SessionIds : completeSession(sid)
    \/ \E i \in 1..MaxCalls : completeSessionUpdate(i)
    \/ \E sid \in SessionIds, dto \in CreateEventDtos : addEvent(sid, dto)
    \/ \E i \in 1..MaxCalls : addEventCreate(i)
    \/ \E i \in 1..MaxCalls : addEventFindExisting(i)
    \/ \E sid \in SessionIds, pg \in PaginationDtos : getSession(sid, pg)
    \/ \E i \in 1..MaxCalls : getSessionFindEvents(i)
    \/ \E i \in 1..MaxCalls : getSessionCount(i)

\* The service over a storage engine whose calls all succeed.
Spec == Init /\ [][Next]_vars

NextWithFaults ==
    \/ Next
    \/ \E i \in 1..MaxCalls : storageFailure(i)
    \/ \E sid \in SessionIds, dto \in CreateEventDtos :
          findSessionFailure(AddEventCall(sid, dto))
    \/ \E sid \in SessionIds, pg \in PaginationDtos :
          findSessionFailure(GetSessionCall(sid, pg))

\* The service over a storage engine whose calls may fail. A call that fails
\* writes nothing, so the collections go through the same states as in Spec.
SpecWithFaults == Init /\ [][NextWithFaults]_vars

----------------------------------------------------------------------------
\* Paging: the service with sessions "s1" and "s2" created and events stored
\* before the requests of the behaviour start.

\* Event ids of the events of "s1", in the order of their insert. A paging
\* behaviour introduces them in this order (NextEventDto); none of them is a
\* name of EventIdOrder, whose order therefore does not constrain them.
StoredEventIdOrder == <<"a1", "a2", "a3", "a4", "a5", "a6", "a7", "a8">>

\* The CreateEventDto with event id `eid` and body `b`.
EventDto(eid, b) ==
    [eventId |-> eid, type |-> b.type, payload |-> b.payload,
     timestamp |-> b.timestamp]

\* Query strings of GET /sessions/:sessionId: limits up to one above the
\* maximum, offsets up to the number of stored events.
PagingQueries == [limit : 1..(LimitMax + 1), offset : 0..MaxStored]

\* The body of the k-th event stored for "s1": the later instant first, so
\* that the order of insertion is not the order of the timestamps.
StoredBody(k) ==
    CHOOSE x \in EventBodies :
        x.type = (IF k % 2 = 1 THEN "message_received" ELSE "message_sent")

\* The state after createSession for "s1" and "s2" and then addEvent for n
\* events of "s1" and one event of "s2", all at clock 1 and all returned; the
\* clock has moved on since.
InitPaging ==
    \E n \in 0..MaxStored :
        /\ sessions =
              { NewSession(1, [sessionId |-> "s1", language |-> "en"], 1),
                NewSession(2, [sessionId |-> "s2", language |-> "en"], 1) }
        /\ events =
              { NewEvent(2 + k, "s1",
                         EventDto(StoredEventIdOrder[k], StoredBody(k)), 1) :
                    k \in 1..n }
              \cup { NewEvent(3 + n, "s2", EventDto("e1", StoredBody(2)), 1) }
        /\ calls = [i \in 1..MaxCalls |-> Idle]
        /\ now = MaxClock
        /\ nextId = 4 + n

\* The requests of a paging behaviour: one getSession for "s1" among
\* concurrent addEvent requests that append new events to "s1". The steps of
\* a getSession read the collections and write its own response only, so what
\* one request returns does not depend on other getSession requests, nor on
\* addEvent requests that meet a stored key and write nothing.
NoGetSessionYet == \A j \in Started : calls[j].op # "getSession"

\* The event ids stored for "s1" or named by a request.
UsedEventIds == {e.eventId : e \in EventsOf("s1")} \cup NamedEventIds

\* dto names the first event id not used yet.
NextEventDto(dto) ==
    /\ dto.eventId \notin UsedEventIds
    /\ InOrder(dto.eventId, UsedEventIds, StoredEventIdOrder)

NextPaging ==
    \/ \E query \in PagingQueries : NoGetSessionYet /\ getSession("s1", query)
    \/ \E i \in 1..MaxCalls : getSessionFindEvents(i)
    \/ \E i \in 1..MaxCalls : getSessionCount(i)
    \/ \E k \in 1..Len(StoredEventIdOrder), b \in EventBodies :
          /\ NextEventDto(EventDto(StoredEventIdOrder[k], b))
          /\ addEvent("s1", EventDto(StoredEventIdOrder[k], b))
    \/ \E i \in 1..MaxCalls : addEventCreate(i)

SpecPaging == InitPaging /\ [][NextPaging]_vars

----------------------------------------------------------------------------
\* Traversal: a client pages through "s1", starting at offset 0 and asking
\* for the page at nextOffset while hasMore is true, among concurrent addEvent
\* requests that append new events to "s1".

\* Bodies of the events stored at the start: three instants.
TraversalBodies ==
    EventBodies \cup
        { [type |-> "user_joined", payload |-> "p3",
           timestamp |-> "2025-12-16T10:02:00.000Z"] }

\* The state after createSession for "s1" and "s2" and then addEvent for n
\* events of "s1", with timestamps in any order and possibly equal, and one
\* event of "s2", all at clock 1 and all returned; the clock has moved on
\* since.
InitTraversal ==
    \E n \in 0..(MaxStored + 1) : \E b \in [1..n -> TraversalBodies] :
        /\ sessions =
              { NewSession(1, [sessionId |-> "s1", language |-> "en"], 1),
                NewSession(2, [sessionId |-> "s2", language |-> "en"], 1) }
        /\ events =
              { NewEvent(2 + k, "s1", EventDto(StoredEventIdOrder[k], b[k]), 1) :
                    k \in 1..n }
              \cup { NewEvent(3 + n, "s2", EventDto("e1", StoredBody(2)), 1) }
        /\ calls = [i \in 1..MaxCalls |-> Idle]
        /\ now = MaxClock
        /\ nextId = 4 + n

\* The getSession requests issued so far, and the last of them.
GetSessionCalls == {j \in Started : calls[j].op = "getSession"}
LastGetSession == CHOOSE j \in GetSessionCalls : \A k \in GetSessionCalls : k <= j

\* The client asks for the next page: the last response said hasMore, and the
\* request repeats its limit with offset = nextOffset.
getSessionNextPage ==
    /\ GetSessionCalls # {}
    /\ LET last == calls[LastGetSession] IN
       /\ last.pc = "done" /\ last.res.outcome = "ok"
       /\ last.res.body.pagination.hasMore
       /\ getSession("s1", [limit |-> last.query.limit,
                            offset |-> last.res.body.pagination.nextOffset[1]])

\* One addEvent request runs beside the traversal.
NoAddEventYet == \A j \in Started : calls[j].op # "addEvent"

NextTraversal ==
    \/ \E limit \in 1..LimitMax :
          NoGetSessionYet /\ getSession("s1", [limit |-> limit, offset |-> 0])
    \/ getSessionNextPage
    \/ \E i \in 1..MaxCalls : getSessionFindEvents(i)
    \/ \E i \in 1..MaxCalls : getSessionCount(i)
    \/ \E k \in 1..Len(StoredEventIdOrder), b \in EventBodies :
          /\ NoAddEventYet
          /\ NextEventDto(EventDto(StoredEventIdOrder[k], b))
          /\ addEvent("s1", EventDto(StoredEventIdOrder[k], b))
    \/ \E i \in 1..MaxCalls : addEventCreate(i)

SpecTraversal == InitTraversal /\ [][NextTraversal]_vars

----------------------------------------------------------------------------
\* Appending: the service with sessions "s1" and "s2" created, no event
\* stored, and addEvent requests for both.

\* The state after createSession for "s1" and "s2" returned, at clock 1.
InitAppend ==
    /\ sessions =
          { NewSession(1, [sessionId |-> "s1", language |-> "en"], 1),
            NewSession(2, [sessionId |-> "s2", language |-> "en"], 1) }
    /\ events = {}
    /\ calls = [i \in 1..MaxCalls |-> Idle]
    /\ now = 1
    /\ nextId = 3

NextAppend ==
    \/ \E sid \in SessionIds, dto \in CreateEventDtos : addEvent(sid, dto)
    \/ \E i \in 1..MaxCalls : addEventCreate(i)
    \/ \E i \in 1..MaxCalls : addEventFindExisting(i)

SpecAppend == InitAppend /\ [][NextAppend]_vars

----------------------------------------------------------------------------
\* Properties.

Calls == 1..MaxCalls

\* Request i has returned, and no storage call of it failed.
Returned(i) == calls[i].pc = "done" /\ ~calls[i].fault

ReturnedOk(i) == Returned(i) /\ calls[i].res.outcome = "ok"

CreateCalls(sid) ==
    {i \in Calls : calls[i].op = "createSession" /\ calls[i].sessionId = sid}

CompleteCalls(sid) ==
    {i \in Calls : calls[i].op = "completeSession" /\ calls[i].sessionId = sid}

AddEventCalls(sid, eid) ==
    {i \in Calls : /\ calls[i].op = "addEvent"
                   /\ calls[i].sessionId = sid
                   /\ calls[i].dto.eventId = eid}

\* C1: under every interleaving of createSession calls, at most one Session
\* document is stored per sessionId, and its language (with its startedAt) is
\* the one a single createSession call for that sessionId supplied.
C1_OneSessionPerId ==
    /\ \A d1, d2 \in sessions : d1.sessionId = d2.sessionId => d1 = d2
    /\ \A d \in sessions :
          \E i \in CreateCalls(d.sessionId) :
              /\ calls[i].dto.language = d.language
              /\ calls[i].t = d.startedAt

\* Two createSession calls for one sessionId with different languages raced
\* for the insert, both returned, and one document is stored.
C1_Witness ==
    \E sid \in SessionIds : \E i, j \in CreateCalls(sid) :
        /\ calls[i].dto.language # calls[j].dto.language
        /\ ReturnedOk(i) /\ ReturnedOk(j)
        /\ calls[j].lostRace
        /\ Cardinality(SessionsWith(sid)) = 1

\* C2: under every interleaving of concurrent and retried addEvent calls, at
\* most one Event document is stored per (sessionId, eventId).
C2_OneEventPerKey ==
    \A e1, e2 \in events :
        (e1.sessionId = e2.sessionId /\ e1.eventId = e2.eventId) => e1 = e2

\* Two addEvent calls with one key and different bodies returned, the second
\* after a duplicate key, and one event is stored under the key.
C2_Witness ==
    \E sid \in SessionIds, eid \in EventIds : \E i, j \in AddEventCalls(sid, eid) :
        /\ calls[i].dto # calls[j].dto
        /\ ReturnedOk(i) /\ ReturnedOk(j)
        /\ calls[j].duplicate
        /\ Cardinality(EventsWith(sid, eid)) = 1

\* C3: every createSession call returns 201 with a fully initialized Session
\* of its sessionId, the calls for one sessionId all return the one stored
\* document (same _id, sessionId, language, startedAt, createdAt), and the
\* duplicate key of a call that lost the insert race never reaches the caller.
C3_CreateSessionAllSucceed ==
    \A i \in Calls :
        (calls[i].op = "createSession" /\ Returned(i)) =>
            /\ calls[i].res.outcome = "ok"
            /\ calls[i].res.code = 201
            /\ LET b == calls[i].res.body IN
               /\ b.sessionId = calls[i].dto.sessionId
               /\ b.language \in Languages
               /\ b.status \in {ACTIVE, COMPLETED}
               /\ b.startedAt \in 1..MaxClock
               /\ \E d \in sessions :
                     /\ d._id = b._id /\ d.sessionId = b.sessionId
                     /\ d.language = b.language /\ d.startedAt = b.startedAt
               /\ \A j \in CreateCalls(calls[i].sessionId) :
                     ReturnedOk(j) =>
                         LET c == calls[j].res.body IN
                         /\ c._id = b._id /\ c.language = b.language
                         /\ c.startedAt = b.startedAt
                         /\ c.createdAt = b.createdAt

\* A createSession call lost the insert race to a concurrent call for the
\* same sessionId, and both returned the session.
C3_Witness ==
    \E sid \in SessionIds : \E i, j \in CreateCalls(sid) :
        /\ i # j
        /\ ReturnedOk(i) /\ ReturnedOk(j)
        /\ ~calls[i].lostRace /\ calls[j].lostRace
        /\ calls[i].res.body._id = calls[j].res.body._id

\* C4: with the session stored, addEvent calls with one (sessionId, eventId),
\* concurrent or retried, all return 201, a replay exactly as the first write,
\* and all return the same event: the one stored by the first write.
C4_AddEventSameResponse ==
    /\ [](\A i \in Calls :
            (calls[i].op = "addEvent" /\ Returned(i)) =>
                /\ calls[i].res.outcome \in {"ok", "NotFoundException"}
                /\ calls[i].res.outcome = "ok" =>
                      LET sid == calls[i].sessionId
                          eid == calls[i].dto.eventId IN
                      /\ calls[i].res.code = 201
                      /\ calls[i].res.body \in EventsWith(sid, eid)
                      /\ \A j \in AddEventCalls(sid, eid) :
                            ReturnedOk(j) => calls[j].res = calls[i].res
                      /\ \E k \in AddEventCalls(sid, eid) :
                            /\ ReturnedOk(k) /\ ~calls[k].duplicate
                            /\ calls[i].res.body.type = calls[k].dto.type
                            /\ calls[i].res.body.payload = calls[k].dto.payload
                            /\ calls[i].res.body.timestamp =
                                   ParseDate(calls[k].dto.timestamp))
    /\ [][\A i \in Calls :
            (/\ calls[i].pc = "idle" /\ calls'[i].op = "addEvent"
             /\ SessionsWith(calls'[i].sessionId) # {})
                => (calls'[i].pc = "create" \/ calls'[i].fault)]_vars

\* A first write and a replay with another body returned the same response.
C4_Witness ==
    \E sid \in SessionIds, eid \in EventIds : \E i, j \in AddEventCalls(sid, eid) :
        /\ ReturnedOk(i) /\ ReturnedOk(j)
        /\ ~calls[i].duplicate /\ calls[j].duplicate
        /\ calls[i].dto # calls[j].dto
        /\ calls[i].res = calls[j].res
        /\ calls[j].res.code = 201

\* C5: a stored Event never changes, and an addEvent call with a stored key
\* and another type, payload or timestamp returns the stored event.
C5_StoredEventNeverChanges ==
    /\ [][\A e \in events : e \in events']_vars
    /\ [](\A i \in Calls :
            (calls[i].op = "addEvent" /\ ReturnedOk(i) /\ calls[i].duplicate) =>
                calls[i].res.body \in
                    EventsWith(calls[i].sessionId, calls[i].dto.eventId))

\* An addEvent call whose type, payload and timestamp all differ from the
\* stored event's returned the stored event.
C5_Witness ==
    \E i \in Calls :
        /\ calls[i].op = "addEvent" /\ ReturnedOk(i) /\ calls[i].duplicate
        /\ calls[i].res.body \in events
        /\ calls[i].res.body.type # calls[i].dto.type
        /\ calls[i].res.body.payload # calls[i].dto.payload
        /\ calls[i].res.body.timestamp # ParseDate(calls[i].dto.timestamp)

\* The upsert of request i matches a stored session and returns.
UpsertOfExisting(i) ==
    /\ calls[i].op = "createSession" /\ calls[i].pc = "upsert"
    /\ SessionsWith(calls[i].sessionId) # {}
    /\ calls'[i].pc = "done" /\ ~calls'[i].fault

\* C6 as claimed: createSession for a stored sessionId leaves the stored
\* record unchanged in every field and returns it.
C6_ExistingRecordUnchanged ==
    [][\A i \in Calls :
        UpsertOfExisting(i) =>
            /\ sessions' = sessions
            /\ calls'[i].res.outcome = "ok"
            /\ calls'[i].res.body \in sessions]_vars

\* C6 as amended: createSession for a stored sessionId writes updatedAt and
\* nothing else (sessionId, language, status, startedAt, endedAt, createdAt and
\* _id stay, the supplied language is ignored) and returns the stored record.
C6_ExistingChangesOnlyUpdatedAt ==
    [][\A i \in Calls :
        UpsertOfExisting(i) =>
            \E d \in SessionsWith(calls[i].sessionId) :
                LET nd == [d EXCEPT !.updatedAt = calls[i].t] IN
                /\ sessions' = (sessions \ {d}) \cup {nd}
                /\ calls'[i].res = [outcome |-> "ok", code |-> 201, body |-> nd]]_vars

\* createSession for a completed session returned it, with the language it
\* was created with and not the one supplied, and with a later updatedAt.
C6_Witness ==
    \E i \in Calls :
        /\ calls[i].op = "createSession" /\ ReturnedOk(i)
        /\ calls[i].res.body.language # calls[i].dto.language
        /\ calls[i].res.body.updatedAt # calls[i].res.body.createdAt
        /\ calls[i].res.body.endedAt # <<>>
        /\ calls[i].res.body \in sessions

\* C7: the sessionId, language and startedAt of a stored session never change.
C7_CreationFieldsImmutable ==
    [][\A d \in sessions :
        \E n \in sessions' :
            /\ n._id = d._id /\ n.sessionId = d.sessionId
            /\ n.language = d.language /\ n.startedAt = d.startedAt]_vars

\* A session kept its language and startedAt through a later createSession
\* with another language at another time and through a completeSession.
C7_Witness ==
    \E d \in sessions : \E j \in CreateCalls(d.sessionId) :
        /\ ReturnedOk(j)
        /\ calls[j].dto.language # d.language
        /\ calls[j].t # d.startedAt
        /\ d.status = COMPLETED

\* C8: a session is inserted active, a completed session stays completed
\* whatever calls follow, and every completeSession that succeeds returns
\* status completed.
C8_StatusOnlyMovesToCompleted ==
    /\ [][/\ \A d \in sessions :
               d.status = COMPLETED =>
                   \E n \in sessions' : n._id = d._id /\ n.status = COMPLETED
          /\ \A n \in sessions' :
               (\A d \in sessions : d._id # n._id) => n.status = ACTIVE]_vars
    /\ [](\A i \in Calls :
            (calls[i].op = "completeSession" /\ ReturnedOk(i)) =>
                /\ calls[i].res.body.status = COMPLETED
                /\ \E d \in sessions :
                      d._id = calls[i].res.body._id /\ d.status = COMPLETED)

\* After a completeSession succeeded, a createSession for the same session
\* returned, and the session is still completed.
C8_Witness ==
    \E sid \in SessionIds : \E i \in CompleteCalls(sid), j \in CreateCalls(sid) :
        /\ ReturnedOk(i) /\ ReturnedOk(j)
        /\ calls[j].res.body.status = COMPLETED
        /\ \A d \in SessionsWith(sid) : d.status = COMPLETED

\* C9 as claimed: endedAt is set once; a completeSession on a completed
\* session leaves its endedAt as the first call set it.
C9_EndedAtSetOnce ==
    [][\A d \in sessions :
        d.status = COMPLETED =>
            \E n \in sessions' : n._id = d._id /\ n.endedAt = d.endedAt]_vars

\* The update of completeSession request i finds the session and returns.
CompleteOfExisting(i) ==
    /\ calls[i].op = "completeSession" /\ calls[i].pc = "update"
    /\ SessionsWith(calls[i].sessionId) # {}
    /\ calls'[i].pc = "done" /\ ~calls'[i].fault

C11_EndedAtAbsentIffActive ==
    \A d \in sessions : (d.endedAt = <<>>) <=> (d.status = ACTIVE)

\* An active session without endedAt and a completed session with one are
\* stored, the completed one written by a completeSession that returned.
C11_Witness ==
    \E a, c \in sessions :
        /\ a.status = ACTIVE /\ a.endedAt = <<>>
        /\ c.status = COMPLETED /\ c.endedAt # <<>>
        /\ \E i \in CompleteCalls(c.sessionId) : ReturnedOk(i)

\* No session with this sessionId is stored.
NoSession(sid) == \A d \in sessions : d.sessionId # sid

\* C12: addEvent for a sessionId that has no stored Session fails with
\* NotFound and stores no Event: the events collection is unchanged.
C12_AddEventNoSessionNotFound ==
    [][\A i \in Calls :
        (/\ calls[i].pc = "idle" /\ calls'[i].op = "addEvent"
         /\ NoSession(calls'[i].sessionId))
            => /\ calls'[i].pc = "done"
               /\ calls'[i].res.outcome = "NotFoundException"
               /\ calls'[i].res.code = 404
               /\ events' = events]_vars

\* With an event stored for another session, an addEvent for a sessionId
\* without a session returned NotFound, and no event of that sessionId is
\* stored.
C12_Witness ==
    \E i \in Calls :
        /\ calls[i].op = "addEvent" /\ Returned(i)
        /\ calls[i].res.outcome = "NotFoundException"
        /\ NoSession(calls[i].sessionId)
        /\ EventsOf(calls[i].sessionId) = {}
        /\ events # {}

\* The step in which request i looks its session up: sessionModel.findOne of
\* addEvent and getSession, findOneAndUpdate of completeSession.
SessionCheck(i) ==
    \/ calls[i].pc = "idle" /\ calls'[i].op \in {"addEvent", "getSession"}
    \/ /\ calls[i].op = "completeSession" /\ calls[i].pc = "update"
       /\ calls'[i].pc = "done" /\ ~calls'[i].fault

\* C13: the session lookup of addEvent, getSession and completeSession fails
\* with NotFound exactly when no session with the sessionId is stored, so it
\* keeps failing until a createSession has stored one and never fails after;
\* a failed lookup stores no session, NotFound comes from no other step, and
\* only createSession's insert makes a sessionId exist.
C13_NotFoundUntilCreated ==
    [][/\ \A i \in Calls :
            /\ SessionCheck(i) =>
                  /\ (calls'[i].res.outcome = "NotFoundException")
                        <=> NoSession(calls'[i].sessionId)
                  /\ NoSession(calls'[i].sessionId) =>
                        /\ calls'[i].pc = "done"
                        /\ calls'[i].res.code = 404
                        /\ sessions' = sessions
            /\ (/\ calls[i].pc # "done" /\ calls'[i].pc = "done"
                /\ calls'[i].res.outcome = "NotFoundException")
                  => SessionCheck(i)
       /\ \A sid \in SessionIds :
            (NoSession(sid) /\ SessionsWith(sid)' # {}) =>
                \E j \in CreateCalls(sid) :
                    calls[j].pc = "insert" /\ calls'[j].pc = "done"]_vars

\* A request failed with NotFound, a createSession for its sessionId took
\* effect, and the same request repeated succeeded.
C13_Witness ==
    \E i, j \in Calls :
        /\ calls[i].op \in {"addEvent", "getSession", "completeSession"}
        /\ calls[j].op = calls[i].op
        /\ calls[j].sessionId = calls[i].sessionId
        /\ Returned(i) /\ calls[i].res.outcome = "NotFoundException"
        /\ ReturnedOk(j)
        /\ \E k \in CreateCalls(calls[i].sessionId) : ReturnedOk(k)

\* C14: in every reachable state, every stored Event's sessionId is the
\* sessionId of a stored Session, although addEvent checks the session and
\* inserts the event in two storage steps that other requests interleave with.
C14_EventsReferToSessions ==
    \A e \in events : \E d \in sessions : d.sessionId = e.sessionId

\* Between the session check of addEvent request i and its insert, request
\* j, issued later, checked the session and inserted the event: i met the
\* duplicate key, and the stored event refers to a stored session.
C14_Witness ==
    \E e \in events : \E i, j \in AddEventCalls(e.sessionId, e.eventId) :
        /\ i < j
        /\ ReturnedOk(i) /\ calls[i].duplicate
        /\ ReturnedOk(j) /\ ~calls[j].duplicate
        /\ SessionsWith(e.sessionId) # {}

\* C15 as claimed: a storage call of any handler that fails with an error
\* other than a duplicate key reaches the caller as the one generic internal
\* failure, InternalServerErrorException, never as the storage engine's error.
C15_StorageFailuresAreGeneric ==
    \A i \in Calls :
        (calls[i].pc = "done" /\ calls[i].fault) =>
            /\ calls[i].res.outcome = "InternalServerErrorException"
            /\ calls[i].res.code = 500

\* The find step of getSession request i.
FindEventsStep(i) ==
    /\ calls[i].op = "getSession" /\ calls[i].pc = "find_events"
    /\ calls'[i].pc = "count"

\* The count step of getSession request i, which returns the response.
CountStep(i) ==
    /\ calls[i].op = "getSession" /\ calls[i].pc = "count"
    /\ calls'[i].pc = "done" /\ ~calls'[i].fault

\* The events stored for sid, stated on the collection itself.
StoredFor(sid) == {e \in events : e.sessionId = sid}

\* C16: for an existing session, getSession with the limit and offset the
\* handler receives returns the events at positions offset+1 .. offset+limit
\* of that session's events by timestamp ascending, as stored when the page
\* is read: events of that session only, each once, as many as there are at
\* those positions, the k-th of them with fewer than offset+k events before
\* it and at least offset+k events at or before it.
C16_PageIsSortedSlice ==
    [][\A i \in Calls :
        /\ FindEventsStep(i) =>
              LET S == StoredFor(calls[i].sessionId)
                  page == calls'[i].page
                  off == calls[i].offset
                  lim == calls[i].limit
                  rest == IF Cardinality(S) > off THEN Cardinality(S) - off ELSE 0
              IN /\ Len(page) = (IF lim < rest THEN lim ELSE rest)
                 /\ \A k \in 1..Len(page) :
                       /\ page[k] \in S
                       /\ \A m \in 1..Len(page) : m # k => page[m] # page[k]
                       /\ Cardinality({e \in S : e.timestamp < page[k].timestamp})
                              < off + k
                       /\ Cardinality({e \in S : e.timestamp <= page[k].timestamp})
                              >= off + k
        /\ CountStep(i) => calls'[i].res.body.events = calls[i].page]_vars

\* A getSession with limit 1 and offset 1 returned the second of three events
\* of its session: an event stored after, and dated before, the event that
\* was inserted first.
C16_Witness ==
    \E i \in Calls :
        /\ calls[i].op = "getSession" /\ ReturnedOk(i)
        /\ calls[i].res.body.pagination.offset = 1
        /\ calls[i].res.body.pagination.limit = 1
        /\ calls[i].res.body.pagination.total = 3
        /\ Len(calls[i].res.body.events) = 1
        /\ \E e \in StoredFor(calls[i].sessionId) :
              /\ e._id < calls[i].res.body.events[1]._id
              /\ e.timestamp > calls[i].res.body.events[1].timestamp
        /\ \E e \in events : e.sessionId # calls[i].sessionId

\* C17: the total getSession returns is the number of events stored for the
\* session when the count is taken, whatever limit and offset are, events of
\* other sessions not counted.
C17_TotalIsExactCount ==
    [][\A i \in Calls :
        CountStep(i) =>
            calls'[i].res.body.pagination.total =
                Cardinality(StoredFor(calls[i].sessionId))]_vars

\* With an event of another session stored, a getSession with limit 2 and
\* offset 0 returned one event and total 2: the second event was inserted
\* after the page was read, and counted.
C17_Witness ==
    \E i \in Calls :
        /\ calls[i].op = "getSession" /\ ReturnedOk(i)
        /\ calls[i].res.body.pagination.limit = 2
        /\ calls[i].res.body.pagination.offset = 0
        /\ Len(calls[i].res.body.events) = 1
        /\ calls[i].res.body.pagination.total = 2
        /\ Cardinality(StoredFor(calls[i].sessionId)) = 2
        /\ Cardinality(events) = 3

\* C18: in every getSession response, hasMore is true exactly when
\* offset + limit < total, and nextOffset is offset + limit when hasMore is
\* true and null otherwise; limit and offset are those of the request.
C18_HasMoreAndNextOffset ==
    \A i \in Calls :
        (calls[i].op = "getSession" /\ ReturnedOk(i)) =>
            LET p == calls[i].res.body.pagination IN
            /\ p.limit = calls[i].limit /\ p.offset = calls[i].offset
            /\ p.hasMore \in BOOLEAN
            /\ p.hasMore <=> (p.offset + p.limit < p.total)
            /\ p.hasMore => p.nextOffset = <<p.offset + p.limit>>
            /\ ~p.hasMore => p.nextOffset = <<>>

\* A response whose page ends exactly at the last event: offset + limit =
\* total, hasMore false and nextOffset null.
C18_Witness ==
    \E i \in Calls :
        /\ calls[i].op = "getSession" /\ ReturnedOk(i)
        /\ LET p == calls[i].res.body.pagination IN
           /\ p.offset = 1 /\ p.limit = 1 /\ p.total = 2
           /\ ~p.hasMore /\ p.nextOffset = <<>>

\* C19: a getSession request with limit above the configured maximum is
\* clamped: its response reports the maximum as limit and holds at most that
\* many events; no response reports a limit above the maximum or holds more
\* events than the maximum.
C19_LimitIsClamped ==
    \A i \in Calls :
        (calls[i].op = "getSession" /\ ReturnedOk(i)) =>
            LET b == calls[i].res.body IN
            /\ b.pagination.limit <= LimitMax
            /\ Len(b.events) <= LimitMax
            /\ calls[i].query.limit > LimitMax =>
                  b.pagination.limit = LimitMax

\* A request with limit above the maximum, for a session with more events
\* than the maximum, returned the maximum number of events and reported the
\* maximum as limit.
C19_Witness ==
    \E i \in Calls :
        /\ calls[i].op = "getSession" /\ ReturnedOk(i)
        /\ calls[i].query.limit > LimitMax
        /\ calls[i].query.offset = 0
        /\ calls[i].res.body.pagination.limit = LimitMax
        /\ Len(calls[i].res.body.events) = LimitMax
        /\ calls[i].res.body.pagination.total > LimitMax
        /\ calls[i].res.body.pagination.hasMore

\* C20: a getSession whose offset is greater than or equal to the number of
\* events its session holds returns no events, the number of events as total,
\* hasMore false and nextOffset null.
C20_OffsetBeyondTotal ==
    [][\A i \in Calls :
        (CountStep(i) /\ calls[i].offset >= Cardinality(StoredFor(calls[i].sessionId)))
            => LET b == calls'[i].res.body IN
               /\ b.events = <<>>
               /\ b.pagination.total = Cardinality(StoredFor(calls[i].sessionId))
               /\ b.pagination.offset = calls[i].offset
               /\ b.pagination.hasMore = FALSE
               /\ b.pagination.nextOffset = <<>>]_vars

\* A getSession with offset 2 for a session of one event returned no events,
\* total 1, hasMore false and nextOffset null.
C20_Witness ==
    \E i \in Calls :
        /\ calls[i].op = "getSession" /\ ReturnedOk(i)
        /\ calls[i].res.body.pagination.offset = 2
        /\ calls[i].res.body.pagination.total = 1
        /\ Cardinality(StoredFor(calls[i].sessionId)) = 1
        /\ calls[i].res.body.events = <<>>
        /\ ~calls[i].res.body.pagination.hasMore
        /\ calls[i].res.body.pagination.nextOffset = <<>>

\* The addEvent requests that wrote the event (sid, eid): they returned, and
\* not after a duplicate key.
FirstAppends(sid, eid) ==
    {k \in AddEventCalls(sid, eid) : ReturnedOk(k) /\ ~calls[k].duplicate}

C22_EventIdUniquePerSession ==
    \A i \in Calls :
        (calls[i].op = "addEvent" /\ Returned(i)) =>
            /\ calls[i].res.outcome = "ok"
            /\ calls[i].res.body.sessionId = calls[i].sessionId
            /\ calls[i].res.body.eventId = calls[i].dto.eventId
            /\ calls[i].res.body \in events
            /\ calls[i].duplicate =>
                  \E k \in FirstAppends(calls[i].sessionId, calls[i].dto.eventId) :
                      k # i
            /\ \A j \in Calls :
                  (/\ calls[j].op = "addEvent" /\ ReturnedOk(j)
                   /\ calls[j].dto.eventId = calls[i].dto.eventId
                   /\ calls[j].sessionId # calls[i].sessionId)
                      => /\ calls[j].res.body # calls[i].res.body
                         /\ calls[j].res.body._id # calls[i].res.body._id

\* Two addEvent requests with the same eventId and body, one for each
\* session, both wrote: two events are stored, and a third request that
\* repeated the first was the only replay.
C22_Witness ==
    \E i, j, r \in Calls :
        /\ calls[i].op = "addEvent" /\ calls[j].op = "addEvent"
        /\ calls[r].op = "addEvent" /\ r # i
        /\ calls[i].sessionId # calls[j].sessionId
        /\ calls[i].dto = calls[j].dto
        /\ calls[r].sessionId = calls[i].sessionId
        /\ calls[r].dto.eventId = calls[i].dto.eventId
        /\ ReturnedOk(i) /\ ReturnedOk(j) /\ ReturnedOk(r)
        /\ ~calls[i].duplicate /\ ~calls[j].duplicate /\ calls[r].duplicate
        /\ calls[r].res.body = calls[i].res.body
        /\ Cardinality(events) = 2

\* The sessionIds stored, and the (sessionId, eventId) keys stored.
StoredSessionIds == {d.sessionId : d \in sessions}
StoredEventKeys == {<<e.sessionId, e.eventId>> : e \in events}

\* C23: no step deletes a record: the set of stored sessionIds and the set
\* of stored (sessionId, eventId) keys grow or stay the same in every step.
C23_NothingIsDeleted ==
    [][/\ StoredSessionIds \subseteq StoredSessionIds'
       /\ StoredEventKeys \subseteq StoredEventKeys']_vars

\* A session holds two events, each written by an addEvent that returned:
\* the second insert left the first event and the session stored.
C23_Witness ==
    \E d \in sessions : \E e1, e2 \in EventsOf(d.sessionId) :
        /\ e1 # e2
        /\ FirstAppends(d.sessionId, e1.eventId) # {}
        /\ FirstAppends(d.sessionId, e2.eventId) # {}
        /\ \E i \in CreateCalls(d.sessionId) : ReturnedOk(i)

\* The events the getSession requests numbered up to i returned, page after
\* page in the order of the requests.
RECURSIVE PagesUpTo(_)
PagesUpTo(i) ==
    IF i = 0 THEN <<>>
    ELSE PagesUpTo(i - 1) \o
             (IF i \in GetSessionCalls /\ ReturnedOk(i)
              THEN calls[i].res.body.events ELSE <<>>)

\* A traversal is complete: every getSession request returned, the first
\* asked for offset 0, each later one for the nextOffset of the one before
\* with the same limit, and the last one answered hasMore false.
TraversalComplete ==
    /\ GetSessionCalls # {}
    /\ \A i \in GetSessionCalls :
          /\ ReturnedOk(i)
          /\ calls[i].sessionId = "s1"
          /\ LET before == {k \in GetSessionCalls : k < i} IN
                IF before = {} THEN calls[i].query.offset = 0
                ELSE LET p == CHOOSE k \in before : \A m \in before : m <= k IN
                        /\ calls[p].res.body.pagination.hasMore
                        /\ calls[i].query.offset =
                               calls[p].res.body.pagination.nextOffset[1]
                        /\ calls[i].query.limit = calls[p].query.limit
    /\ ~calls[LastGetSession].res.body.pagination.hasMore

\* The events of the session carry pairwise distinct timestamps.
DistinctTimestamps(sid) ==
    \A e1, e2 \in StoredFor(sid) : e1 # e2 => e1.timestamp # e2.timestamp

\* No addEvent has written an event.
NoAddEventTookEffect ==
    \A j \in Calls : calls[j].op = "addEvent" => calls[j].pc # "done"

\* C24: a traversal of a session that starts at offset 0 and follows
\* nextOffset until hasMore is false returns every event of the session
\* exactly once and in ascending timestamp order, when the events have
\* distinct timestamps and no addEvent has taken effect.
C24_TraversalReturnsAllOnce ==
    (TraversalComplete /\ DistinctTimestamps("s1") /\ NoAddEventTookEffect) =>
        LET all == PagesUpTo(MaxCalls) IN
            /\ Len(all) = Cardinality(StoredFor("s1"))
            /\ \A e \in StoredFor("s1") : \E k \in 1..Len(all) : all[k] = e
            /\ \A k, m \in 1..Len(all) :
                  k < m => all[k].timestamp < all[m].timestamp

\* A traversal in three pages of one event each, over three events whose
\* order of insertion is not their order of timestamp, is complete, while an
\* addEvent never ran.
C24_Witness ==
    /\ TraversalComplete /\ DistinctTimestamps("s1") /\ NoAddEventTookEffect
    /\ Cardinality(GetSessionCalls) = 3
    /\ Cardinality(StoredFor("s1")) = 3
    /\ \A i \in GetSessionCalls : Len(calls[i].res.body.events) = 1
    /\ \E e1, e2 \in StoredFor("s1") :
          e1._id < e2._id /\ e1.timestamp > e2.timestamp

\* C25: the page is read and the events are counted in two storage steps,
\* and addEvent may insert between them. The read returns at most limit
\* events, and fewer than limit only when no event stored at the read lies
\* beyond the page; no step removes or changes a stored event; and the
\* response holds at most limit and at most max(0, total - offset) events,
\* and answers hasMore = false only if the page was short of limit or the
\* page ends at the last event now stored. Hence hasMore = false only if the
\* page reached the last event stored when the page was read.
C25_PageAndCountUnderInserts ==
    [][/\ events \subseteq events'
       /\ \A i \in Calls :
            /\ FindEventsStep(i) =>
                  LET atRead == Cardinality(StoredFor(calls[i].sessionId))
                      page == calls'[i].page
                  IN /\ Len(page) <= calls[i].limit
                     /\ Len(page) <= (IF atRead > calls[i].offset
                                      THEN atRead - calls[i].offset ELSE 0)
                     /\ Len(page) < calls[i].limit =>
                            calls[i].offset + Len(page) >= atRead
            /\ CountStep(i) =>
                  LET p == calls'[i].res.body.pagination
                      n == Len(calls'[i].res.body.events)
                  IN /\ calls'[i].res.body.events = calls[i].page
                     /\ n <= p.limit
                     /\ n <= (IF p.total > p.offset THEN p.total - p.offset ELSE 0)
                     /\ ~p.hasMore =>
                            \/ n < p.limit
                            \/ p.offset + n =
                                   Cardinality(StoredFor(calls[i].sessionId))]_vars

\* A getSession with offset 1 and limit 2 read a page of one event, the
\* last of the two then stored; an addEvent inserted a third before the
\* count, and the response reports total 3 and hasMore false.
C25_Witness ==
    \E i \in Calls :
        /\ calls[i].op = "getSession" /\ ReturnedOk(i)
        /\ calls[i].res.body.pagination.offset = 1
        /\ calls[i].res.body.pagination.limit = 2
        /\ calls[i].res.body.pagination.total = 3
        /\ ~calls[i].res.body.pagination.hasMore
        /\ Len(calls[i].res.body.events) = 1
        /\ \E k \in Calls :
              /\ calls[k].op = "addEvent" /\ ReturnedOk(k)
              /\ calls[k].sessionId = calls[i].sessionId
              /\ calls[k].res.body \in StoredFor(calls[i].sessionId)

\* A session with this sessionId is stored and its status is completed.
Completed(sid) == \E d \in sessions : d.sessionId = sid /\ d.status = COMPLETED

\* C26: addEvent does not look at the session's status. An addEvent issued
\* for a completed session passes the session check; its insert, when the
\* session is completed and no event with its (sessionId, eventId) is
\* stored, returns 201 with the new event and adds exactly that event; and
\* neither step changes any session, so status and endedAt stay as they
\* were.
C26_AppendToCompletedSession ==
    [][\A i \in Calls :
        /\ (/\ calls[i].pc = "idle" /\ calls'[i].op = "addEvent"
            /\ Completed(calls'[i].sessionId))
               => /\ calls'[i].pc = "create"
                  /\ sessions' = sessions
        /\ (/\ calls[i].op = "addEvent" /\ calls[i].pc = "create"
            /\ calls'[i].pc # "create"
            /\ Completed(calls[i].sessionId)
            /\ EventsWith(calls[i].sessionId, calls[i].dto.eventId) = {})
               => /\ calls'[i].pc = "done"
                  /\ calls'[i].res.outcome = "ok"
                  /\ calls'[i].res.code = 201
                  /\ calls'[i].res.body.sessionId = calls[i].sessionId
                  /\ calls'[i].res.body.eventId = calls[i].dto.eventId
                  /\ calls'[i].res.body \notin events
                  /\ events' = events \cup {calls'[i].res.body}
                  /\ sessions' = sessions]_vars

\* A session completed at clock 1 holds an event created at clock 2 by an
\* addEvent that returned 201 for a new event, issued after the
\* completeSession request that returned; the session still has status
\* completed and endedAt 1.
C26_Witness ==
    \E d \in sessions : \E i, k \in Calls :
        /\ d.status = COMPLETED /\ d.endedAt = <<1>>
        /\ k \in CompleteCalls(d.sessionId) /\ ReturnedOk(k)
        /\ k < i
        /\ calls[i].op = "addEvent" /\ calls[i].sessionId = d.sessionId
        /\ ReturnedOk(i) /\ ~calls[i].duplicate
        /\ calls[i].res.code = 201
        /\ calls[i].res.body \in events
        /\ calls[i].res.body.createdAt = 2

\* C27: every step that changes a collection is a step of one request, and
\* the request whose step it is decides what may change: a step of a
\* getSession leaves sessions and events as they were, a step of an addEvent
\* leaves sessions as they were, and a step of a createSession or a
\* completeSession leaves events as they were.
C27_FrameOfEachOperation ==
    [][/\ (sessions' # sessions \/ events' # events) =>
              \E i \in Calls : calls'[i] # calls[i]
       /\ \A i \in Calls :
            calls'[i] # calls[i] =>
                /\ calls'[i].op = "getSession" =>
                       sessions' = sessions /\ events' = events
                /\ calls'[i].op = "addEvent" => sessions' = sessions
                /\ calls'[i].op \in {"createSession", "completeSession"} =>
                       events' = events]_vars

\* A createSession, an addEvent at a later clock and a getSession all
\* returned: the one session stored is the document createSession returned,
\* and the one event stored is the one addEvent returned and getSession
\* listed.
C27_Witness ==
    \E c, a, g \in Calls :
        /\ calls[c].op = "createSession" /\ ReturnedOk(c)
        /\ calls[a].op = "addEvent" /\ ReturnedOk(a) /\ ~calls[a].duplicate
        /\ calls[g].op = "getSession" /\ ReturnedOk(g)
        /\ sessions = {calls[c].res.body}
        /\ events = {calls[a].res.body}
        /\ calls[a].res.body.createdAt > calls[c].res.body.createdAt
        /\ calls[g].res.body.events = <<calls[a].res.body>>
        /\ calls[g].res.body.session = calls[c].res.body

\* C28: the outcome 'Duplicate key error but event not found' is never
\* produced. While an addEvent request stands between the rejected insert
\* and its re-read, an event with its (sessionId, eventId) is stored, so the
\* re-read finds one; and no request has returned that outcome: a request
\* whose insert was rejected, and whose re-read ran, returns 201 with the
\* stored event of its key.
C28_DuplicateKeyRereadFinds ==
    \A i \in Calls :
        /\ (calls[i].op = "addEvent" /\ calls[i].pc = "find_existing") =>
               /\ calls[i].duplicate
               /\ EventsWith(calls[i].sessionId, calls[i].dto.eventId) # {}
        /\ (calls[i].op = "addEvent" /\ calls[i].pc = "done") =>
               /\ calls[i].res # InternalServerError(
                                     "Duplicate key error but event not found")
               /\ (calls[i].duplicate /\ ~calls[i].fault) =>
                      /\ calls[i].res.outcome = "ok"
                      /\ calls[i].res.code = 201
                      /\ calls[i].res.body \in
                             EventsWith(calls[i].sessionId, calls[i].dto.eventId)

\* Of two addEvent requests with one key and different types, the one
\* issued first had its insert rejected: its re-read returned the event the
\* other request had written, while a third request stands between its own
\* rejected insert and its re-read.
C28_Witness ==
    \E i, k, r \in Calls :
        /\ i < k /\ r # i /\ r # k
        /\ calls[i].op = "addEvent" /\ calls[k].op = "addEvent"
        /\ calls[r].op = "addEvent"
        /\ calls[i].sessionId = calls[k].sessionId
        /\ calls[i].dto.eventId = calls[k].dto.eventId
        /\ calls[i].dto.type # calls[k].dto.type
        /\ ReturnedOk(i) /\ calls[i].duplicate
        /\ ReturnedOk(k) /\ ~calls[k].duplicate
        /\ calls[i].res.body = calls[k].res.body
        /\ calls[r].pc = "find_existing"

====
